---- MODULE Spec2Model ----
(***************************************************************************)
(* Record/replay mock server (src/index.js, class MockServer).             *)
(*                                                                         *)
(* Strings are sequences of tokens: a token is a piece of text that the    *)
(* code never looks inside, except for the substring tests "http",         *)
(* "/http" and "/?url=", which are answered per token below.  JavaScript   *)
(* objects are sequences of <<key, value>> pairs in insertion order, which *)
(* is the order JSON.stringify serialises them in.                         *)
(***************************************************************************)
EXTENDS Integers, Sequences, FiniteSets, TLC

\* ------------------------------------------------------------------ bounds
MaxCalls == 2
MaxConns == 1
MaxPureLen == 3
MaxHeaders == 2

\* --------------------------------------------------------------- constants
SNAPSHOT_DIR == "__mock-server-snapshots__"
port == 9001
\* the text `.localhost:${port}`
PortSuffix == ".localhost:9001"

\* ------------------------------------------------------------ string tools
Schemes == {"https://", "http://"}
EncSchemes == {"https%3A%2F%2F"}
HostTokens == {"a.com", "b.com", "localhost:9001"}
QueryTokens == {"?url=", "?q=1", "?q=2"}

\* tokens whose text contains the substring "http"
HasHttp(t) == t \in Schemes \cup EncSchemes \cup {"xhttp"}
\* tokens whose text starts with "http"
StartsHttp(t) == t \in Schemes \cup EncSchemes

Last(s) == s[Len(s)]

Drop(s, n) == IF n >= Len(s) THEN <<>> ELSE SubSeq(s, n + 1, Len(s))

Take(s, n) == IF n <= 0 THEN <<>> ELSE SubSeq(s, 1, IF n < Len(s) THEN n ELSE Len(s))

\* s.indexOf("http") !== -1
ContainsHttp(s) == \E i \in 1..Len(s) : HasHttp(s[i])

\* positions where the text "/?url=" starts
UrlMarks(s) == {i \in 1..Len(s) : s[i] = "/" /\ i < Len(s) /\ s[i + 1] = "?url="}

\* positions where the text "/http" starts
SlashHttpMarks(s) == {i \in 1..Len(s) : s[i] = "/" /\ i < Len(s) /\ StartsHttp(s[i + 1])}

Min(S) == CHOOSE x \in S : \A y \in S : x <= y

\* [, x] = s.split("/?url="): the piece between the first and the second mark
SplitSecond(s) ==
  LET first == Min(UrlMarks(s))
      rest == Drop(s, first + 1)
  IN IF UrlMarks(rest) = {} THEN rest ELSE Take(rest, Min(UrlMarks(rest)) - 1)

\* referer.substring(referer.indexOf("/http") + 1)
AfterSlashHttp(s) == IF SlashHttpMarks(s) = {} THEN s ELSE Drop(s, Min(SlashHttpMarks(s)))

\* host.indexOf(`.localhost:${port}`) !== -1
IsSubdomainHost(h) == \E i \in 1..Len(h) : h[i] = PortSuffix

\* host.replace(`.localhost:${port}`, ""): the first occurrence is removed
StripPort(h) ==
  LET i == Min({j \in 1..Len(h) : h[j] = PortSuffix})
  IN Take(h, i - 1) \o Drop(h, i)

\* decodeURIComponent: "%" alone is a malformed escape and raises URIError
DecodeFails(s) == \E i \in 1..Len(s) : s[i] = "%"

DecodeToken(t) == IF t = "https%3A%2F%2F" THEN "https://" ELSE IF t = "%2F" THEN "/" ELSE t

decodeURIComponent(s) == [i \in 1..Len(s) |-> DecodeToken(s[i])]

\* new URL(s): scheme, host, then path tokens, then query tokens
FirstQuery(s) == IF \E i \in 1..Len(s) : s[i] \in QueryTokens
                 THEN Min({i \in 1..Len(s) : s[i] \in QueryTokens})
                 ELSE Len(s) + 1

UrlOk(s) ==
  /\ Len(s) >= 2
  /\ s[1] \in Schemes
  /\ s[2] \in HostTokens
  /\ Len(s) >= 3 => s[3] \in {"/"} \cup QueryTokens

ParseURL(s) ==
  LET q == FirstQuery(s)
      rawPath == IF q <= 3 THEN <<>> ELSE SubSeq(s, 3, q - 1)
      pathname == IF rawPath = <<>> THEN <<"/">> ELSE rawPath
      search == Drop(s, q - 1)
  IN [host |-> <<s[2]>>,
      origin |-> <<s[1], s[2]>>,
      pathname |-> pathname,
      href |-> <<s[1], s[2]>> \o pathname \o search]

\* ----------------------------------------------------------------- objects
Has(obj, k) == \E i \in 1..Len(obj) : obj[i][1] = k

Get(obj, k) == obj[CHOOSE i \in 1..Len(obj) : obj[i][1] = k][2]

\* !fullHeaders[k]: the header is absent or its value is the empty string
Falsy(obj, k) == ~Has(obj, k) \/ Get(obj, k) = ""

\* the array literal the reduce walks over
AllowList == <<"Content-Type", "user-agent", "Authorization">>

RECURSIVE ReduceHeaders(_, _, _)
ReduceHeaders(fullHeaders, i, o) ==
  IF i > Len(AllowList) THEN o
  ELSE ReduceHeaders(fullHeaders, i + 1,
         IF Falsy(fullHeaders, AllowList[i]) THEN o
         ELSE Append(o, <<AllowList[i], Get(fullHeaders, AllowList[i])>>))

\* variant: the headers are copied in the order the inbound object lists them
NormalizeHeadersInboundOrder(fullHeaders) ==
  SelectSeq(fullHeaders,
            LAMBDA h : h[2] # "" /\ \E i \in 1..Len(AllowList) : AllowList[i] = h[1])

NormalizeHeaders(fullHeaders) == ReduceHeaders(fullHeaders, 1, <<>>)

\* JSON.stringify keeps the insertion order of the keys; the text is kept as
\* the ordered structure it spells out
JsonStringify(v) == <<"json", v>>

\* JSON.parse raises on the empty text and on a text cut short
JsonParses(t) == Len(t) = 2 /\ t[1] = "json"

JsonParse(t) == t[2]

\* md5 is taken to be collision free
md5(t) == <<"md5", t>>

\* Buffer.from(data, "binary"): a Buffer is copied, each char code of a
\* string is cut to its low byte
\* variant: the "ascii" encoding, which drops the high bit
BufferFromAscii(d) == [i \in 1..Len(d) |-> d[i] % 128]

BufferFromBinary(d) == [i \in 1..Len(d) |-> d[i] % 256]

\* Buffer.toString() as JSON.parse applies it: UTF-8 decoding; the byte
\* values used here are either ASCII or never form a valid multi-byte run
Utf8Decode(b) == [i \in 1..Len(b) |-> IF b[i] < 128 THEN b[i] ELSE 65533]

\* ---------------------------------------------------------- snapshot store
uniqueReqId(requestData) == md5(JsonStringify(requestData))

getSnapshotFiles(requestData) ==
  LET host == Get(requestData, "host")
      pathname == Get(requestData, "pathname")
      method == Get(requestData, "method")
      snapshotBase == <<SNAPSHOT_DIR, host,
                        IF Last(pathname) = "/" THEN Append(pathname, "index") ELSE pathname,
                        method, uniqueReqId(requestData)>>
  IN [directory |-> <<SNAPSHOT_DIR, host>>,
      info |-> <<snapshotBase, ".json">>,
      data |-> <<snapshotBase, ".data">>]

Exists(fs, p) == p \in DOMAIN fs

WriteFile(fs, p, content) == [q \in DOMAIN fs \cup {p} |-> IF q = p THEN content ELSE fs[q]]

RemoveFile(fs, p) == [q \in DOMAIN fs \ {p} |-> fs[q]]

\* variant: the metadata is looked for under another suffix than it is saved
SnapshotHitWrongPath(fs, requestData) ==
  LET snapshotFiles == getSnapshotFiles(requestData)
  IN /\ Exists(fs, <<snapshotFiles.info[1], ".info">>)
     /\ Exists(fs, snapshotFiles.data)

\* the try block of fetchFromSnapshot: a result, or undefined after the catch
SnapshotHit(fs, requestData) ==
  LET snapshotFiles == getSnapshotFiles(requestData)
  IN /\ Exists(fs, snapshotFiles.info)
     /\ JsonParses(fs[snapshotFiles.info])
     /\ Exists(fs, snapshotFiles.data)

fetchFromSnapshot(fs, requestData) ==
  LET snapshotFiles == getSnapshotFiles(requestData)
  IN [info |-> JsonParse(fs[snapshotFiles.info]),
      data |-> fs[snapshotFiles.data],
      requestData |-> requestData]

\* how the three filesystem calls of saveSnapshot can end: a failing
\* writeFileSync leaves the file as it was (open failed) or empty (the write
\* failed after the truncating open)
SaveOutcomes == {"ok", "mkdir_throws", "info_throws_unchanged", "info_throws_empty",
                 "data_throws_unchanged", "data_throws_empty"}

SaveThrows(outcome) == outcome # "ok"

\* variant: a payload file that exists is kept, only the metadata is rewritten
saveSnapshotKeepPayload(fs, data, info, requestData, outcome) ==
  LET snapshotFiles == getSnapshotFiles(requestData)
      infoWritten == WriteFile(fs, snapshotFiles.info, JsonStringify(info))
  IN IF outcome # "ok" THEN fs
     ELSE IF Exists(fs, snapshotFiles.data) THEN infoWritten
     ELSE WriteFile(infoWritten, snapshotFiles.data, BufferFromBinary(data))

\* variant: the payload is written as text, bytes outside ASCII are replaced
saveSnapshotAsText(fs, data, info, requestData, outcome) ==
  LET snapshotFiles == getSnapshotFiles(requestData)
      infoWritten == WriteFile(fs, snapshotFiles.info, JsonStringify(info))
  IN IF outcome = "ok"
     THEN WriteFile(infoWritten, snapshotFiles.data,
                    [i \in 1..Len(data) |-> IF data[i] < 128 THEN data[i] ELSE 63])
     ELSE fs

saveSnapshot(fs, data, info, requestData, outcome) ==
  LET snapshotFiles == getSnapshotFiles(requestData)
      infoWritten == WriteFile(fs, snapshotFiles.info, JsonStringify(info))
  IN CASE outcome = "mkdir_throws" -> fs
       [] outcome = "info_throws_unchanged" -> fs
       [] outcome = "info_throws_empty" -> WriteFile(fs, snapshotFiles.info, <<>>)
       [] outcome = "data_throws_unchanged" -> infoWritten
       [] outcome = "data_throws_empty" -> WriteFile(infoWritten, snapshotFiles.data, <<>>)
       [] OTHER -> WriteFile(infoWritten, snapshotFiles.data, BufferFromBinary(data))

\* fetchFromSnapshot: the record read, or undefined once the catch has
\* swallowed whatever readFileSync or JSON.parse raised
Undefined == [defined |-> FALSE, info |-> <<>>, data |-> <<>>]

\* variant: the payload is read lazily, a missing payload file goes unnoticed
fetchFromSnapshotNoPayloadCheck(fs, requestData) ==
  LET snapshotFiles == getSnapshotFiles(requestData)
  IN IF Exists(fs, snapshotFiles.info) /\ JsonParses(fs[snapshotFiles.info])
     THEN [defined |-> TRUE,
           info |-> JsonParse(fs[snapshotFiles.info]),
           data |-> IF Exists(fs, snapshotFiles.data) THEN fs[snapshotFiles.data] ELSE <<>>]
     ELSE Undefined

\* variant: every lookup is answered with undefined
fetchFromSnapshotNever(fs, requestData) == Undefined

fetchFromSnapshotResult(fs, requestData) ==
  IF SnapshotHit(fs, requestData)
  THEN [defined |-> TRUE,
        info |-> fetchFromSnapshot(fs, requestData).info,
        data |-> fetchFromSnapshot(fs, requestData).data]
  ELSE Undefined

\* ------------------------------------------------------- request handling
\* app.all("/") serves the path "/" whatever the query string, app.all("/*")
\* serves the rest
IsRootPath(u) == Len(u) = 1 \/ (Len(u) > 1 /\ u[2] \in QueryTokens)

RouteUrl(u) ==
  IF IsRootPath(u)
  THEN IF UrlMarks(u) # {} THEN SplitSecond(u) ELSE u
  ELSE Drop(u, 1)

\* first rewrite of serveHttpData: the origin encoded in the Host header
SubdomainUrl(url, host) ==
  IF ~ContainsHttp(url) /\ IsSubdomainHost(host)
  THEN <<"https://">> \o StripPort(host) \o <<"/">> \o url
  ELSE url

\* second rewrite: the origin found in the Referer; new URL raises when the
\* text after "/http" is no absolute URL
RefererApplies(url, referer) == ~ContainsHttp(url) /\ referer # <<>>

RefererThrows(url, referer) == RefererApplies(url, referer) /\ ~UrlOk(AfterSlashHttp(referer))

RefererUrl(url, referer) ==
  IF RefererApplies(url, referer)
  THEN ParseURL(AfterSlashHttp(referer)).origin \o <<"/">> \o url
  ELSE url

\* new URL(decodeURIComponent(url)) of recordReplayData raises
NormalizeThrows(url) == DecodeFails(url) \/ ~UrlOk(decodeURIComponent(url))

HttpRequestData(url, method, fullHeaders, body) ==
  LET u == ParseURL(decodeURIComponent(url))
  IN << <<"host", u.host>>,
        <<"pathname", u.pathname>>,
        <<"href", u.href>>,
        <<"method", <<method>>>>,
        <<"headers", NormalizeHeaders(fullHeaders)>>,
        <<"body", body>> >>

SocketRequestData(host, href, data) ==
  << <<"host", host>>,
     <<"href", href>>,
     <<"data", data>>,
     <<"pathname", <<"/socket.io/">>>>,
     <<"method", <<"websocket">>>> >>

\* info.headers["content-type"] as res.set receives it
ContentTypeOf(info) ==
  IF Has(Get(info, "headers"), "content-type")
  THEN Get(Get(info, "headers"), "content-type")
  ELSE "undefined"

\* ------------------------------------------------------------------- inputs
Headers1 == << <<"user-agent", "ua">>, <<"cookie", "x">> >>

Raw(url, host, referer, method, body) ==
  [url |-> url, host |-> host, referer |-> referer, method |-> method,
   headers |-> Headers1, body |-> body]

LocalHost == <<"localhost:9001">>

\* inbound HTTP calls as Express hands them over: req.url, the Host and
\* Referer headers (<<>>: no Referer), the method, the parsed body
RawHttp ==
  { Raw(<<"/", "?url=", "https://", "a.com", "/", "p">>, LocalHost, <<>>, "GET", <<>>),
    Raw(<<"/", "https://", "a.com", "/", "p">>, LocalHost, <<>>, "GET", <<>>),
    Raw(<<"/", "p">>, <<"a.com", PortSuffix>>, <<>>, "GET", <<>>),
    Raw(<<"/", "p">>, LocalHost,
        <<"http://", "localhost:9001", "/", "https://", "a.com", "/", "x">>, "GET", <<>>),
    Raw(<<"/", "https%3A%2F%2F", "b.com", "/">>, LocalHost, <<>>, "POST", << <<"k", "v">> >>),
    Raw(<<"/", "p">>, LocalHost, <<>>, "GET", <<>>),
    Raw(<<"/", "p">>, LocalHost, <<"junk">>, "GET", <<>>),
    Raw(<<"/", "xhttp">>, LocalHost, <<>>, "GET", <<>>),
    Raw(<<"/", "https://", "a.com", "/", "%">>, LocalHost, <<>>, "GET", <<>>) }

\* what the upstream HTTP server can answer: the body bytes and its
\* Content-Type header ("": the header is missing)
HttpReplies ==
  { [data |-> <<0, 255>>, ctype |-> "image/png"],
    [data |-> <<104>>, ctype |-> ""] }

\* the handshake query parameter url (<<>>: missing or blank)
SocketUrls == { <<>>, <<"https://", "a.com", "/">>, <<"junk">> }

\* message payloads a client emits
SocketData == { <<"ping">>, <<"pong">> }

\* JSON.stringify(response) of what the upstream acknowledges with, as char
\* codes: "a", the euro sign; <<>> stands for an ack without argument
SocketReplies == { <<34, 97, 34>>, <<34, 8364, 34>>, <<>> }

\* -------------------------------------------------------------------- state
VARIABLES
  files,      \* the snapshot directory: path -> content
  calls,      \* per inbound call: where its handler stands and what it did
  conns,      \* per inbound socket.io connection
  crashed,    \* an exception reached the event loop uncaught
  shutdown,   \* "running", "closing" once close() was called, "closed" once it resolved
  pure        \* state of the function-level specifications

vars == <<files, calls, conns, crashed, shutdown, pure>>

Calls == 1..MaxCalls
Conns == 1..MaxConns

IdleCall ==
  [proto |-> "none", state |-> "idle", requestData |-> <<>>,
   sawSnapshot |-> "none", priorSaves |-> 0, fetches |-> 0, fetched |-> <<>>,
   fetchedType |-> "", saves |-> 0, saveOrdinal |-> 0, saveThrew |-> FALSE, sent |-> 0, body |-> <<>>, ctype |-> "unset",
   status |-> "default", proxyOpen |-> FALSE, escape |-> "none", conn |-> 0,
   inFlightAtClose |-> FALSE, saveWhen |-> "none"]

NoConn == [state |-> "none", url |-> <<>>, disconnected |-> FALSE, host |-> <<>>, href |-> <<>>]

Init ==
  /\ files = <<>>
  /\ calls = [c \in Calls |-> IdleCall]
  /\ conns = [s \in Conns |-> NoConn]
  /\ crashed = FALSE
  /\ shutdown = "running"
  /\ pure = [phase |-> "off"]

\* calls are numbered in the order they arrive
NextCall(c) == calls[c].state = "idle" /\ \A d \in Calls : d < c => calls[d].state # "idle"

KeyOf(requestData) == getSnapshotFiles(requestData)

\* completed saveSnapshot invocations for the key of requestData
SavesFor(requestData) ==
  LET S == {d \in Calls : calls[d].requestData # <<>>
                          /\ KeyOf(calls[d].requestData) = KeyOf(requestData)}
      RECURSIVE Sum(_)
      Sum(T) == IF T = {} THEN 0 ELSE LET d == CHOOSE d \in T : TRUE
                                      IN calls[d].saves + Sum(T \ {d})
  IN Sum(S)

\* what is on disk for a request when its lookup is made
SnapshotState(fs, requestData) ==
  LET f == getSnapshotFiles(requestData)
  IN IF ~Exists(fs, f.info) /\ ~Exists(fs, f.data) THEN "absent"
     ELSE IF ~Exists(fs, f.info) THEN "no_metadata"
     ELSE IF ~JsonParses(fs[f.info]) THEN "bad_metadata"
     ELSE IF ~Exists(fs, f.data) THEN "no_payload"
     ELSE "intact"

Corrupt == {"no_metadata", "bad_metadata", "no_payload"}

\* the metadata fetchFromServer keeps of the axios response
ResponseInfo(reply) ==
  << <<"status", "200">>,
     <<"headers", IF reply.ctype = "" THEN <<>> ELSE << <<"content-type", reply.ctype>> >> >> >>

\* res.set("Content-Type", ...) then res.send(Buffer.from(data, "binary"))
Served(call, info, data) ==
  [call EXCEPT !.sent = @ + 1, !.body = BufferFromBinary(data), !.ctype = ContentTypeOf(info)]

\* variant: the catch answers with an error status
ServedError(call) == [call EXCEPT !.sent = @ + 1, !.body = <<>>, !.status = "500"]

\* the catch of serveHttpData: res.send(null)
ServedNull(call) == [call EXCEPT !.sent = @ + 1, !.body = <<>>]

\* the lookup every call starts with, and what it found
LookedUp(call, proto, requestData) ==
  [call EXCEPT !.proto = proto, !.requestData = requestData,
               !.sawSnapshot = SnapshotState(files, requestData),
               !.priorSaves = SavesFor(requestData)]

\* ---------------------------------------------------------------- HTTP path
\* a route handler, serveHttpData and recordReplayData up to the first I/O
\* wait: the axios call of fetchFromServer
HttpReceive(c, raw) ==
  /\ ~crashed
  /\ shutdown = "running"
  /\ NextCall(c)
  /\ LET url1 == SubdomainUrl(RouteUrl(raw.url), raw.host)
         url == RefererUrl(url1, raw.referer)
         requestData == HttpRequestData(url, raw.method, raw.headers, raw.body)
         snapshotData == fetchFromSnapshotResult(files, requestData)
         looked == LookedUp(calls[c], "http", requestData)
     IN IF RefererThrows(url1, raw.referer)
        THEN calls' = [calls EXCEPT ![c] =
               [@ EXCEPT !.proto = "http", !.state = "rejected",
                         !.escape = "unhandledRejection"]]
        ELSE calls' = [calls EXCEPT ![c] =
               IF NormalizeThrows(url)
               THEN ServedNull([@ EXCEPT !.proto = "http", !.state = "rejected"])
               ELSE IF snapshotData.defined
               THEN Served([looked EXCEPT !.state = "replayed"],
                           snapshotData.info, snapshotData.data)
               ELSE [looked EXCEPT !.state = "fetching", !.fetches = @ + 1]]
  /\ UNCHANGED <<files, conns, crashed, shutdown, pure>>

\* variant: a rejected axios call is tried once more before giving up
HttpUpstreamFailsRetry(c) ==
  /\ ~crashed
  /\ calls[c].proto = "http" /\ calls[c].state = "fetching"
  /\ calls' = [calls EXCEPT ![c] =
       IF @.fetches < 2 THEN [@ EXCEPT !.fetches = @ + 1]
       ELSE ServedNull([@ EXCEPT !.state = "failed"])]
  /\ UNCHANGED <<files, conns, crashed, shutdown, pure>>

\* axios rejects: fetchFromServer logs and returns undefined, the
\* destructuring in serveHttpData raises, its catch sends null
HttpUpstreamFails(c) ==
  /\ ~crashed
  /\ calls[c].proto = "http" /\ calls[c].state = "fetching"
  /\ calls' = [calls EXCEPT ![c] = ServedNull([@ EXCEPT !.state = "failed"])]
  /\ UNCHANGED <<files, conns, crashed, shutdown, pure>>

\* axios resolves: saveSnapshot, then the response is served; a raising
\* saveSnapshot lands in the catch of fetchFromServer
HttpUpstreamReplies(c, reply, outcome) ==
  /\ ~crashed
  /\ calls[c].proto = "http" /\ calls[c].state = "fetching"
  /\ LET requestData == calls[c].requestData
         info == ResponseInfo(reply)
         got == [calls[c] EXCEPT !.fetched = reply.data, !.fetchedType = reply.ctype]
     IN /\ files' = saveSnapshot(files, reply.data, info, requestData, outcome)
        /\ calls' = [calls EXCEPT ![c] =
             IF SaveThrows(outcome)
             THEN ServedNull([got EXCEPT !.state = "failed", !.saveThrew = TRUE])
             ELSE Served([got EXCEPT !.state = "fetched_saved", !.saves = @ + 1,
                                     !.saveOrdinal = SavesFor(requestData) + 1,
                                     !.saveWhen = shutdown],
                         info, reply.data)]
  /\ UNCHANGED <<conns, crashed, shutdown, pure>>

\* ----------------------------------------------------------- WebSocket path
\* variant: a blank url falls back to a default target instead of raising
ConnectionHandledWithDefault(conn, url) ==
  LET u == IF url = <<>> \/ DecodeFails(url) \/ ~UrlOk(decodeURIComponent(url))
           THEN <<"https://", "a.com", "/">> ELSE decodeURIComponent(url)
  IN [conn EXCEPT !.state = "connected", !.url = url, !.disconnected = (url = <<>>),
                  !.host = ParseURL(u).host, !.href = ParseURL(u).href]

\* the connection handler: socket.disconnect() on a blank url, then new URL,
\* which raises on a blank or malformed url before socket.on("message") is
\* reached; state "connected" means the message handler is registered
ConnectionHandled(conn, url) ==
  IF url = <<>> \/ DecodeFails(url) \/ ~UrlOk(decodeURIComponent(url))
  THEN [conn EXCEPT !.state = "failed", !.url = url, !.disconnected = (url = <<>>)]
  ELSE [conn EXCEPT !.state = "connected", !.url = url,
                    !.host = ParseURL(decodeURIComponent(url)).host,
                    !.href = ParseURL(decodeURIComponent(url)).href]

SocketConnect(s, url) ==
  /\ ~crashed
  /\ shutdown = "running"
  /\ conns[s].state = "none"
  /\ conns' = [conns EXCEPT ![s] = ConnectionHandled(@, url)]
  /\ crashed' = (conns'[s].state = "failed")
  /\ UNCHANGED <<files, calls, shutdown, pure>>

\* JSON.parse(response) on the stored or fetched buffer
ReplyParses(data) == Len(data) > 0

\* callback(JSON.parse(response))
Replied(call, data) ==
  [call EXCEPT !.sent = @ + 1, !.body = Utf8Decode(data)]

\* the message handler up to the wait for the upstream acknowledgement
SocketMessage(c, s, data) ==
  /\ ~crashed
  /\ shutdown = "running"
  /\ NextCall(c)
  /\ conns[s].state = "connected"
  /\ LET requestData == SocketRequestData(conns[s].host, conns[s].href, data)
         snapshotData == fetchFromSnapshotResult(files, requestData)
         looked == [LookedUp(calls[c], "ws", requestData) EXCEPT !.conn = s]
     IN IF snapshotData.defined
        THEN calls' = [calls EXCEPT ![c] =
               IF ReplyParses(snapshotData.data)
               THEN Replied([looked EXCEPT !.state = "replayed"], snapshotData.data)
               ELSE [looked EXCEPT !.state = "replayed", !.escape = "unhandledRejection"]]
        ELSE calls' = [calls EXCEPT ![c] =
               [looked EXCEPT !.state = "fetching", !.fetches = @ + 1, !.proxyOpen = TRUE]]
  /\ UNCHANGED <<files, conns, crashed, shutdown, pure>>

\* the acknowledgement callback of fetchFromSocketIOServer, then the rest of
\* the message handler once the promise has resolved
SocketUpstreamReplies(c, response, outcome) ==
  /\ ~crashed
  /\ calls[c].proto = "ws" /\ calls[c].state = "fetching"
  /\ LET requestData == calls[c].requestData
         data == BufferFromBinary(response)
         got == [calls[c] EXCEPT !.fetched = response]
     IN IF response = <<>>
        THEN /\ crashed' = TRUE
             /\ files' = files
             /\ calls' = [calls EXCEPT ![c] =
                  [@ EXCEPT !.state = "failed", !.escape = "uncaughtException"]]
        ELSE /\ files' = saveSnapshot(files, data, requestData, requestData, outcome)
             /\ crashed' = SaveThrows(outcome)
             /\ calls' = [calls EXCEPT ![c] =
                  IF SaveThrows(outcome)
                  THEN [got EXCEPT !.state = "failed", !.saveThrew = TRUE,
                                   !.escape = "uncaughtException"]
                  ELSE Replied([got EXCEPT !.state = "fetched_saved", !.saves = @ + 1,
                                           !.saveOrdinal = SavesFor(requestData) + 1,
                                           !.saveWhen = shutdown],
                               data)]
  /\ UNCHANGED <<conns, shutdown, pure>>

\* --------------------------------------------------------------- environment
\* an operator deletes or truncates a snapshot artifact behind the server
Tamper(p, how) ==
  /\ ~crashed
  /\ p \in DOMAIN files
  /\ how = "truncate" => files[p] # <<>>
  /\ files' = IF how = "delete" THEN RemoveFile(files, p) ELSE WriteFile(files, p, <<>>)
  /\ UNCHANGED <<calls, conns, crashed, shutdown, pure>>

\* ------------------------------------------------------------------ shutdown
\* close(): server.close() stops the listener, io.close() disconnects every
\* socket.io client, and the 5000 ms timer is armed; fetches that are waiting
\* for their upstream are left alone
Close ==
  /\ ~crashed
  /\ shutdown = "running"
  /\ shutdown' = "closing"
  /\ calls' = [c \in Calls |->
       [calls[c] EXCEPT !.inFlightAtClose = (calls[c].state = "fetching")]]
  /\ conns' = [s \in Conns |->
       IF conns[s].state = "connected" THEN [conns[s] EXCEPT !.disconnected = TRUE]
       ELSE conns[s]]
  /\ UNCHANGED <<files, crashed, pure>>

\* the timer of close() fires and its promise resolves
CloseTimer ==
  /\ ~crashed
  /\ shutdown = "closing"
  /\ shutdown' = "closed"
  /\ UNCHANGED <<files, calls, conns, crashed, pure>>

Next ==
  \/ \E c \in Calls, raw \in RawHttp : HttpReceive(c, raw)
  \/ \E c \in Calls : HttpUpstreamFails(c)
  \/ \E c \in Calls, reply \in HttpReplies, outcome \in SaveOutcomes :
       HttpUpstreamReplies(c, reply, outcome)
  \/ \E s \in Conns, url \in SocketUrls : SocketConnect(s, url)
  \/ \E c \in Calls, s \in Conns, data \in SocketData : SocketMessage(c, s, data)
  \/ \E c \in Calls, response \in SocketReplies, outcome \in SaveOutcomes :
       SocketUpstreamReplies(c, response, outcome)
  \/ \E p \in DOMAIN files, how \in {"delete", "truncate"} : Tamper(p, how)

Spec == Init /\ [][Next]_vars

\* the same server on a filesystem that neither fails nor is tampered with
NextReliable ==
  \/ \E c \in Calls, raw \in RawHttp : HttpReceive(c, raw)
  \/ \E c \in Calls : HttpUpstreamFails(c)
  \/ \E c \in Calls, reply \in HttpReplies : HttpUpstreamReplies(c, reply, "ok")
  \/ \E s \in Conns, url \in SocketUrls : SocketConnect(s, url)
  \/ \E c \in Calls, s \in Conns, data \in SocketData : SocketMessage(c, s, data)
  \/ \E c \in Calls, response \in SocketReplies : SocketUpstreamReplies(c, response, "ok")

SpecReliable == Init /\ [][NextReliable]_vars

\* the reliable server with close() called at some point
NextShutdown ==
  \/ \E c \in Calls, raw \in RawHttp : HttpReceive(c, raw)
  \/ \E c \in Calls : HttpUpstreamFails(c)
  \/ \E c \in Calls, reply \in HttpReplies : HttpUpstreamReplies(c, reply, "ok")
  \/ \E s \in Conns, url \in SocketUrls : SocketConnect(s, url)
  \/ \E c \in Calls, s \in Conns, data \in SocketData : SocketMessage(c, s, data)
  \/ \E c \in Calls, response \in SocketReplies : SocketUpstreamReplies(c, response, "ok")
  \/ Close
  \/ CloseTimer

SpecShutdown == Init /\ [][NextShutdown]_vars

TypeOK ==
  /\ crashed \in BOOLEAN
  /\ shutdown \in {"running", "closing", "closed"}
  /\ \A c \in Calls : calls[c].sent \in 0..1 /\ calls[c].fetches \in 0..1

\* ------------------------------------------ fingerprint of pairs of requests
HeaderNames == {"Content-Type", "user-agent", "Authorization", "cookie"}

HeaderValue(n) == IF n = "Authorization" THEN "token" ELSE IF n = "cookie" THEN "x" ELSE "v"

\* inbound header objects: distinct names in any insertion order
HeaderObjects ==
  { [i \in 1..Len(ns) |-> <<ns[i], HeaderValue(ns[i])>>] :
      ns \in { t \in UNION {[1..n -> HeaderNames] : n \in 0..MaxHeaders} :
                 \A i, j \in 1..Len(t) : t[i] = t[j] => i = j } }

FingerprintUrls ==
  { <<"https://", "a.com", "/", "p">>,
    <<"https://", "a.com", "/", "p", "?q=1">>,
    <<"https://", "a.com", "/", "p", "?q=2">> }

FingerprintInputs ==
  [url : FingerprintUrls, method : {"GET", "POST"}, headers : HeaderObjects,
   body : {<<>>, << <<"a", "1">>, <<"b", "2">> >>, << <<"b", "2">>, <<"a", "1">> >>}]

InitFingerprint ==
  /\ files = <<>>
  /\ calls = [c \in Calls |-> IdleCall]
  /\ conns = [s \in Conns |-> NoConn]
  /\ crashed = FALSE
  /\ shutdown = "running"
  /\ pure \in {[phase |-> "in", a |-> a, b |-> b, ra |-> <<>>, rb |-> <<>>,
                fa |-> <<>>, fb |-> <<>>] : a \in FingerprintInputs, b \in FingerprintInputs}

\* recordReplayData builds each canonical request, getSnapshotFiles hashes it
Fingerprint ==
  /\ pure.phase = "in"
  /\ LET ra == HttpRequestData(pure.a.url, pure.a.method, pure.a.headers, pure.a.body)
         rb == HttpRequestData(pure.b.url, pure.b.method, pure.b.headers, pure.b.body)
     IN pure' = [pure EXCEPT !.phase = "out", !.ra = ra, !.rb = rb,
                             !.fa = uniqueReqId(ra), !.fb = uniqueReqId(rb)]
  /\ UNCHANGED <<files, calls, conns, crashed, shutdown>>

SpecFingerprint == InitFingerprint /\ [][Fingerprint]_vars

\* ------------------------------------------------ save followed by a lookup
Bytes == {0, 10, 128, 255}

Payloads == UNION {[1..n -> Bytes] : n \in 0..MaxPureLen}

RoundTripRequests ==
  { HttpRequestData(<<"https://", "b.com", "/">>, "GET", Headers1, <<>>),
    SocketRequestData(<<"a.com">>, <<"https://", "a.com", "/">>, <<"ping">>) }

InitRoundTrip ==
  /\ files = <<>>
  /\ calls = [c \in Calls |-> IdleCall]
  /\ conns = [s \in Conns |-> NoConn]
  /\ crashed = FALSE
  /\ shutdown = "running"
  /\ pure \in {[phase |-> "payload", payload |-> d, requestData |-> r, loaded |-> Undefined] :
                d \in Payloads, r \in RoundTripRequests}

RoundTripSave ==
  /\ pure.phase = "payload"
  /\ files' = saveSnapshot(files, pure.payload, pure.requestData, pure.requestData, "ok")
  /\ pure' = [pure EXCEPT !.phase = "saved"]
  /\ UNCHANGED <<calls, conns, crashed, shutdown>>

RoundTripLoad ==
  /\ pure.phase = "saved"
  /\ pure' = [pure EXCEPT !.phase = "loaded",
                          !.loaded = fetchFromSnapshotResult(files, pure.requestData)]
  /\ UNCHANGED <<files, calls, conns, crashed, shutdown>>

NextRoundTrip == RoundTripSave \/ RoundTripLoad

SpecRoundTrip == InitRoundTrip /\ [][NextRoundTrip]_vars

\* ===================================================================== claims
SameRequest(c, d) ==
  /\ calls[c].proto = calls[d].proto
  /\ calls[c].requestData # <<>>
  /\ calls[c].requestData = calls[d].requestData

\* C1: on a store that is neither failing nor tampered with, a call (HTTP or
\* WebSocket) whose lookup is made after a save for its fingerprint has
\* completed is answered from the snapshot and never invokes its upstream
\* adapter.
ReplaySkipsUpstream ==
  \A c \in Calls :
    calls[c].priorSaves > 0 =>
      /\ calls[c].state = "replayed"
      /\ calls[c].fetches = 0
      /\ calls[c].sent = 1

ReplaySkipsUpstreamWitness ==
  \E c, d \in Calls :
    /\ c # d /\ SameRequest(c, d)
    /\ calls[d].state = "fetched_saved"
    /\ calls[c].priorSaves = 1 /\ calls[c].state = "replayed"

\* C2: a lookup that finds the metadata file missing, the metadata
\* unparsable or the payload file missing is a miss: nothing escapes the
\* handler and the call goes on to its live upstream fetch.
FailOpenOnCorruption ==
  \A c \in Calls :
    calls[c].sawSnapshot \in Corrupt =>
      /\ calls[c].fetches = 1
      /\ calls[c].state \in {"fetching", "fetched_saved", "failed"}
      /\ calls[c].state = "fetching" => calls[c].escape = "none" /\ calls[c].sent = 0

FailOpenOnCorruptionWitness ==
  \E c \in Calls :
    /\ calls[c].sawSnapshot = "bad_metadata"
    /\ calls[c].state = "fetching"
    /\ calls[c].fetches = 1

\* canonical requests that agree on every field, the headers compared as a
\* set of name/value pairs
HeaderSet(requestData) ==
  LET h == Get(requestData, "headers") IN {h[i] : i \in 1..Len(h)}

SameButHref(ra, rb) ==
  /\ Get(ra, "host") = Get(rb, "host")
  /\ Get(ra, "pathname") = Get(rb, "pathname")
  /\ Get(ra, "method") = Get(rb, "method")
  /\ HeaderSet(ra) = HeaderSet(rb)
  /\ Get(ra, "body") = Get(rb, "body")

ReplayFidelity ==
  \A c, d \in Calls :
    ( /\ calls[d].proto = "http" /\ calls[d].state = "fetched_saved"
      /\ calls[d].sawSnapshot = "absent"
      /\ SameRequest(c, d)
      /\ calls[c].state = "replayed"
      /\ calls[c].priorSaves = calls[d].saveOrdinal )
    => /\ calls[c].sent = 1 /\ calls[d].sent = 1
       /\ calls[c].fetches = 0
       /\ calls[c].body = calls[d].body
       /\ calls[c].ctype = calls[d].ctype

ReplayFidelityWitness ==
  \E c, d \in Calls :
    /\ calls[d].proto = "http" /\ calls[d].state = "fetched_saved"
    /\ calls[d].sawSnapshot = "absent"
    /\ SameRequest(c, d)
    /\ calls[c].state = "replayed"
    /\ calls[c].priorSaves = calls[d].saveOrdinal
    /\ calls[c].body = <<0, 255>>

\* C5: a payload of arbitrary byte values that saveSnapshot wrote is read
\* back by fetchFromSnapshot with the same bytes and the same length.
BinaryRoundTrip ==
  pure.phase = "loaded" => pure.loaded.defined /\ pure.loaded.data = pure.payload

BinaryRoundTripWitness ==
  /\ pure.phase = "loaded"
  /\ Len(pure.payload) = MaxPureLen
  /\ \E i, j \in 1..Len(pure.payload) : pure.payload[i] = 255 /\ pure.payload[j] = 0
  /\ pure.loaded.data = pure.payload

\* C6 as stated: a call whose live fetch succeeded and whose saveSnapshot
\* raised still hands the fetched data to its caller.
StoreWriteFailureKeepsResponse ==
  \A c \in Calls :
    calls[c].saveThrew =>
      /\ calls[c].sent = 1
      /\ calls[c].proto = "http" => calls[c].body = calls[c].fetched

\* C7 as stated: no handler ends in an uncaught exception or an unhandled
\* rejection.
ErrorsNeverEscape == \A c \in Calls : calls[c].escape = "none"

\* C8 as stated: at most one save is ever performed for a fingerprint.
AtMostOneSavePerFingerprint ==
  \A c \in Calls : calls[c].requestData # <<>> => SavesFor(calls[c].requestData) <= 1

\* C8: a call saves at most once, and only after its own lookup missed and
\* its own live fetch succeeded; calls whose lookups all missed each save.
SavesOnlyAfterOwnMiss ==
  \A c \in Calls :
    /\ calls[c].saves <= 1
    /\ calls[c].saves = 1 =>
         /\ calls[c].sawSnapshot # "intact"
         /\ calls[c].fetches = 1
         /\ calls[c].state = "fetched_saved"

SavesOnlyAfterOwnMissWitness ==
  \E c, d \in Calls :
    /\ c # d /\ SameRequest(c, d)
    /\ calls[c].saves = 1 /\ calls[d].saves = 1
    /\ calls[c].sawSnapshot = "absent" /\ calls[d].sawSnapshot = "absent"

\* C9: when the live HTTP call fails nothing is raised, no snapshot file is
\* written, and the client gets an empty body with the default status.
HttpUpstreamFailureContained ==
  [][\A c \in Calls :
       ( /\ calls[c].proto = "http" /\ calls[c].state = "fetching"
         /\ calls'[c].state = "failed" /\ ~calls'[c].saveThrew )
       => /\ files' = files
          /\ calls'[c].saves = 0
          /\ calls'[c].escape = "none" /\ crashed' = crashed
          /\ calls'[c].sent = 1 /\ calls'[c].body = <<>>
          /\ calls'[c].ctype = "unset" /\ calls'[c].status = "default"]_vars

HttpUpstreamFailureContainedWitness ==
  \E c \in Calls :
    /\ calls[c].proto = "http" /\ calls[c].state = "failed" /\ ~calls[c].saveThrew
    /\ calls[c].sent = 1 /\ calls[c].body = <<>>

\* C10 as stated: an HTTP call whose target cannot be resolved produces no
\* canonical request, touches neither the store nor the upstream, and ends
\* with an empty body served.
UnresolvableTargetRejected ==
  \A c \in Calls :
    calls[c].proto = "http" /\ calls[c].state = "rejected" =>
      /\ calls[c].requestData = <<>>
      /\ calls[c].sawSnapshot = "none"
      /\ calls[c].fetches = 0 /\ calls[c].saves = 0
      /\ calls[c].escape = "none"
      /\ calls[c].sent = 1 /\ calls[c].body = <<>>

\* C11: a connection whose url handshake parameter is missing or blank is
\* disconnected, gets no message handler, and no call is ever started for a
\* message on it (no lookup, no upstream call, no save).
BlankUrlRejected ==
  \A s \in Conns :
    conns[s].state # "none" /\ conns[s].url = <<>> =>
      /\ conns[s].disconnected
      /\ conns[s].state # "connected"
      /\ \A c \in Calls : calls[c].conn # s

BlankUrlRejectedWitness ==
  \E s \in Conns :
    /\ conns[s].state = "failed" /\ conns[s].url = <<>>
    /\ conns[s].disconnected

\* ------------------------------------------------- HTTP target resolution
ResolveUrls ==
  { <<"/">>,
    <<"/", "?q=1">>,
    <<"/", "?url=", "p">>,
    <<"/", "?url=", "https://", "a.com", "/", "p">>,
    <<"/", "p">>,
    <<"/", "xhttp">>,
    <<"/", "p", "?url=", "https://", "a.com", "/", "p">>,
    <<"/", "https://", "b.com", "/", "p">>,
    <<"/", "https://", "b.com", "/", "p", "?url=", "https://", "a.com", "/", "p">> }

ResolveHosts == { LocalHost, <<"a.com", PortSuffix>>, <<"b.com", PortSuffix>> }

ResolveReferers ==
  { <<>>,
    <<"junk">>,
    <<"http://", "localhost:9001", "/", "x">>,
    <<"http://", "localhost:9001", "/", "https://", "b.com", "/", "x">> }

InitResolve ==
  /\ files = <<>>
  /\ calls = [c \in Calls |-> IdleCall]
  /\ conns = [s \in Conns |-> NoConn]
  /\ crashed = FALSE
  /\ shutdown = "running"
  /\ pure \in {[phase |-> "inbound", url |-> u, host |-> h, referer |-> r,
                outcome |-> "none", target |-> <<>>] :
                u \in ResolveUrls, h \in ResolveHosts, r \in ResolveReferers}

\* the route handler, serveHttpData and the new URL of recordReplayData
Resolve ==
  /\ pure.phase = "inbound"
  /\ LET url1 == SubdomainUrl(RouteUrl(pure.url), pure.host)
         url == RefererUrl(url1, pure.referer)
     IN pure' = [pure EXCEPT
          !.phase = "resolved",
          !.outcome = IF RefererThrows(url1, pure.referer) THEN "unhandledRejection"
                      ELSE IF NormalizeThrows(url) THEN "rejected"
                      ELSE "resolved",
          !.target = IF RefererThrows(url1, pure.referer) THEN <<>>
                     ELSE IF NormalizeThrows(url) THEN <<>>
                     ELSE ParseURL(decodeURIComponent(url)).href]
  /\ UNCHANGED <<files, calls, conns, crashed, shutdown>>

SpecResolve == InitResolve /\ [][Resolve]_vars

\* the value of the url= query parameter of an inbound req.url
HasUrlParam(u) == \E i \in 1..Len(u) : u[i] = "?url="

UrlParam(u) == Drop(u, Min({i \in 1..Len(u) : u[i] = "?url="}))

\* C12 as stated: the url= query parameter comes first; an inbound call that
\* carries an absolute url= parameter resolves to it, whatever its path, Host
\* and Referer are.
UrlParamWins ==
  pure.phase = "resolved" /\ HasUrlParam(pure.url) /\ UrlOk(UrlParam(pure.url)) =>
    /\ pure.outcome = "resolved"
    /\ pure.target = ParseURL(UrlParam(pure.url)).href

\* ------------------------------------------------------ header allow-list
\* header names as a client writes them, and as http.IncomingMessage lists
\* them in req.headers: in lower case
WireNames == {"Content-Type", "User-Agent", "Authorization", "Cookie", "X-Trace"}

LowerCase(n) ==
  CASE n = "Content-Type" -> "content-type"
    [] n = "User-Agent" -> "user-agent"
    [] n = "Authorization" -> "authorization"
    [] n = "Cookie" -> "cookie"
    [] n = "X-Trace" -> "x-trace"
    [] OTHER -> n

WireObjects ==
  { h \in UNION {[1..n -> WireNames \X {"y", ""}] : n \in 0..MaxHeaders} :
      \A i, j \in 1..Len(h) : h[i][1] = h[j][1] => i = j }
  \cup { << <<"Cookie", "x">>, <<"Authorization", "y">>, <<"X-Trace", "z">> >> }

IncomingHeaders(wire) == [i \in 1..Len(wire) |-> <<LowerCase(wire[i][1]), wire[i][2]>>]

InitHeaders ==
  /\ files = <<>>
  /\ calls = [c \in Calls |-> IdleCall]
  /\ conns = [s \in Conns |-> NoConn]
  /\ crashed = FALSE
  /\ shutdown = "running"
  /\ pure \in {[phase |-> "wire", wire |-> w, headers |-> <<>>] : w \in WireObjects}

\* the reduce of recordReplayData over req.headers
CopyHeaders ==
  /\ pure.phase = "wire"
  /\ pure' = [pure EXCEPT !.phase = "copied",
                          !.headers = NormalizeHeaders(IncomingHeaders(pure.wire))]
  /\ UNCHANGED <<files, calls, conns, crashed, shutdown>>

SpecHeaders == InitHeaders /\ [][CopyHeaders]_vars

AllowedNames == {"content-type", "user-agent", "authorization"}

\* C13 as stated: the canonical headers are exactly the inbound headers among
\* Content-Type, User-Agent and Authorization that are present (with a
\* non-empty value), each with its value, and nothing else.
HeaderAllowList ==
  pure.phase = "copied" =>
    {<<LowerCase(pure.headers[i][1]), pure.headers[i][2]>> : i \in 1..Len(pure.headers)}
      = {<<LowerCase(pure.wire[i][1]), pure.wire[i][2]>> :
           i \in {j \in 1..Len(pure.wire) : /\ LowerCase(pure.wire[j][1]) \in AllowedNames
                                            /\ pure.wire[j][2] # ""}}

\* ------------------------------------------------ C14: upstream connections
\* C14 as stated: the outbound connection a WebSocket message opened is
\* closed once its exchange is over; when no message is in flight, no
\* outbound connection opened by the adapter is still open.
UpstreamConnectionsTornDown ==
  (\A c \in Calls : calls[c].state # "fetching") =>
     \A c \in Calls : calls[c].proto = "ws" => ~calls[c].proxyOpen

\* ------------------------------------------- C15: an upstream that is silent
\* the server against a socket.io upstream that never acknowledges a
\* forwarded message: the callback given to proxySocket.emit is never run
NextSilentUpstream ==
  \/ \E c \in Calls, raw \in RawHttp : HttpReceive(c, raw)
  \/ \E c \in Calls : HttpUpstreamFails(c)
  \/ \E c \in Calls, reply \in HttpReplies : HttpUpstreamReplies(c, reply, "ok")
  \/ \E s \in Conns, url \in SocketUrls : SocketConnect(s, url)
  \/ \E c \in Calls, s \in Conns, data \in SocketData : SocketMessage(c, s, data)

\* the event loop runs whatever handler is ready
SpecSilentUpstream == Init /\ [][NextSilentUpstream]_vars /\ WF_vars(NextSilentUpstream)

\* C15 as stated: a forwarded WebSocket message the upstream never answers
\* ends in the failed terminal state (with no snapshot written and the
\* client's callback never invoked).
UnansweredMessageFails ==
  \A c \in Calls :
    (calls[c].proto = "ws" /\ calls[c].state = "fetching" /\ ~crashed)
      ~> (crashed \/ (calls[c].state = "failed" /\ calls[c].sent = 0 /\ calls[c].saves = 0))

\* ------------------------------------------------------------ C16: shutdown
\* C16 as stated: nothing is accepted once close() was called, and a call
\* that was in flight when close() was called does not save after close()
\* has completed.
NoSaveAfterClose ==
  \A c \in Calls :
    /\ calls[c].inFlightAtClose /\ calls[c].saves > 0 => calls[c].saveWhen # "closed"
    /\ shutdown # "running" /\ calls[c].state # "idle" =>
         calls[c].inFlightAtClose \/ calls[c].state # "fetching"

\* ------------------------------------------------- C17: no automatic retry
Terminal == {"rejected", "replayed", "fetched_saved", "failed"}

\* C17: every call moves idle -> (replayed | fetching -> (fetched_saved |
\* failed)), a call whose target cannot be resolved stopping before; it never
\* leaves a terminal state, and it invokes its upstream adapter at most once,
\* namely on the step that takes it into fetching.
NoAutomaticRetry ==
  [][\A c \in Calls :
       /\ calls'[c].fetches <= 1
       /\ calls'[c].fetches # calls[c].fetches =>
            /\ calls[c].state = "idle" /\ calls'[c].state = "fetching"
            /\ calls'[c].fetches = calls[c].fetches + 1
       /\ calls[c].state = "idle" =>
            calls'[c].state \in {"idle", "rejected", "replayed", "fetching"}
       /\ calls[c].state = "fetching" =>
            calls'[c].state \in {"fetching", "fetched_saved", "failed"}
       /\ calls[c].state \in Terminal => calls'[c].state = calls[c].state]_vars

\* a fetch failed once, and the adapter runs again for the same fingerprint
\* only because a fresh call arrived
NoAutomaticRetryWitness ==
  \E c, d \in Calls :
    /\ c < d /\ SameRequest(c, d)
    /\ calls[c].state = "failed" /\ calls[c].fetches = 1
    /\ calls[d].state = "fetching" /\ calls[d].fetches = 1

\* ---------------------------------------------------- C18: reply correlation
\* C18 as stated: the callback of a WebSocket message is invoked at most
\* once, and what it is given is the upstream reply to that very message, or
\* the reply stored by a message with the same payload and target.
ReplyIsOwnUpstreamReply ==
  \A c \in Calls :
    calls[c].proto = "ws" =>
      /\ calls[c].sent <= 1
      /\ calls[c].sent = 1 /\ calls[c].state = "fetched_saved" =>
           calls[c].body = calls[c].fetched
      /\ calls[c].sent = 1 /\ calls[c].state = "replayed" =>
           \E d \in Calls : /\ SameRequest(c, d) /\ calls[d].saves = 1
                            /\ calls[c].body = calls[d].fetched

\* ------------------------------------------- C19: one response per HTTP call
\* C19 as stated: an HTTP call delivered to serveHttpData gets res.send
\* exactly once: never twice, and once by the time its handler is over,
\* whatever the target resolution, the snapshot state and the upstream did.
ExactlyOneResponse ==
  \A c \in Calls :
    calls[c].proto = "http" =>
      /\ calls[c].sent <= 1
      /\ calls[c].state \in Terminal => calls[c].sent = 1

\* ------------------------------------------------- C20: whole snapshot pairs
\* the call whose saveSnapshot was the last to run for its key
LastWriter(d) ==
  /\ calls[d].saves = 1
  /\ calls[d].saveOrdinal = SavesFor(calls[d].requestData)

\* the metadata and the payload bytes the saveSnapshot of call d was given
WrittenInfo(d) ==
  IF calls[d].proto = "http"
  THEN ResponseInfo([data |-> calls[d].fetched, ctype |-> calls[d].fetchedType])
  ELSE calls[d].requestData

WrittenData(d) == BufferFromBinary(calls[d].fetched)

\* C20: on a store that is neither failing nor tampered with, whatever the
\* interleaving of the calls that missed and saved for a key, a lookup of the
\* key returns the metadata and the payload of the last saveSnapshot that ran
\* for it, both from that one invocation; and no metadata file is ever
\* there without its payload file.
SnapshotPairsNeverTorn ==
  /\ \A d \in Calls :
       LastWriter(d) =>
         /\ SnapshotHit(files, calls[d].requestData)
         /\ fetchFromSnapshot(files, calls[d].requestData).info = WrittenInfo(d)
         /\ fetchFromSnapshot(files, calls[d].requestData).data = WrittenData(d)
  /\ \A c \in Calls :
       calls[c].requestData # <<>> =>
         ( Exists(files, getSnapshotFiles(calls[c].requestData).info)
             <=> Exists(files, getSnapshotFiles(calls[c].requestData).data) )

\* two calls missed for the same key at once and each saved its own reply
SnapshotPairsNeverTornWitness ==
  \E c, d \in Calls :
    /\ c # d /\ SameRequest(c, d)
    /\ calls[c].sawSnapshot = "absent" /\ calls[d].sawSnapshot = "absent"
    /\ calls[c].saves = 1 /\ LastWriter(d)
    /\ WrittenData(c) # WrittenData(d)
    /\ WrittenInfo(c) # WrittenInfo(d)

====
